---------------------------- MODULE Spec2Model ----------------------------
(***************************************************************************)
(* Model of the gateway session of fluxer.js (GatewayClient, src/src/      *)
(* index.ts lines 293-803): connection lifecycle, handshake, heartbeat,    *)
(* close-code handling and reconnection.                                   *)
(*                                                                         *)
(* Node runs every handler to completion, so one action is one handler     *)
(* (a public method call, a WebSocket event, a timer callback).  Event     *)
(* subscribers are assumed not to call back into the client from inside    *)
(* an emission.                                                            *)
(***************************************************************************)
EXTENDS Integers, Sequences, FiniteSets

(***************************************************************************)
(* Bounds of the model.                                                    *)
(***************************************************************************)
MaxConnects == 3            \* transports created in one behaviour
MaxSeq == 2                 \* sequence numbers carried by frames: 0..MaxSeq
MaxTimers == 2              \* pending first-heartbeat timeouts
MaxLeaked == 1              \* intervals running without a handle
MaxOutstanding == 2         \* unacknowledged heartbeats on one transport
MaxReconnectAttempts == 2   \* config.maxReconnectAttempts (default Infinity)
MaxAttempt == 8             \* attempt numbers the backoff delay is computed for
RandomSteps == 10           \* Math.random() returns k / RandomSteps, 0 <= k < RandomSteps
MaxRequests == 4            \* admission requests made in one behaviour
SendLimit == 2              \* limit of the route scoped by channel (5 in the mapping table)
WindowTicks == 2            \* window of the routes, in clock ticks (5000 ms in the table)

\* Constants of the program.
DefaultErrorListeners == 1  \* this._emitter.on("error", () => {}) of the constructor
MaxBackoffSeconds == 60     \* Math.min(..., 60)
JitterPermille == 300       \* Math.random() * 0.3 * backoff

SessionIds == {"s1", "s2"}
EventNames == {"READY", "RESUMED", "MESSAGE_CREATE"}
OpCodes == {"Hello", "HeartbeatAck", "Heartbeat", "InvalidSession", "Reconnect", "Dispatch"}
CloseCodes == {1000, 1006, 4004, 4007, 4009, 4010, 4011, 4012, 4013, 4014}
IgnoreLists == {{}, {"READY"}}
WaiterIds == {"w1", "w2"}     \* waitFor calls that can be pending together
Filters == {[has |-> FALSE, accepts |-> {}], [has |-> TRUE, accepts |-> {"s1"}]}
Timeouts == {-1, 0, 1}        \* options.timeout: undefined (-1), 0, positive
Callers == {"c1", "c2"}        \* callers of the API client that can wait together
ChannelIds == {"A", "B"}
Routes == {"channels.messages.send", "auth.login", "unmapped"}
ControlOps == {"PresenceUpdate", "RequestGuildMembers", "VoiceStateUpdate",
               "CallConnect", "GuildSubscriptions"}
ReconnectDelaysMs == {0, 500, 1000, 2000, 5000, 40000, 100000}  \* config.reconnectDelay, default 2 s

VARIABLES
  ws,                 \* readyState of the transport _ws refers to, "none" when _ws is null
  conn,               \* number of transports created so far
  liveDiscarded,      \* transports dropped by the client while still opening or open
  sequence,           \* _sequence
  sessionId,          \* _sessionId
  heartbeatInterval,  \* _heartbeatInterval is not null
  leakedIntervals,    \* setInterval timers running whose handle was overwritten
  firstBeatTimers,    \* pending setTimeout callbacks of _startHeartbeat
  heartbeatAcked,     \* _heartbeatAcked
  outstanding,        \* heartbeats written to the current transport and not yet acked
  reconnectAttempts,  \* _reconnectAttempts
  isConnecting,       \* _isConnecting
  isReconnecting,     \* _isReconnecting
  destroyed,          \* _destroyed
  reconnectTimers,    \* pending setTimeout callbacks of _scheduleReconnect
  awaiting,           \* promise of the connect() that opened the current transport
  abandoned,          \* connect() promises still pending whose transport lost its listeners
  ignoredGatewayEvents, \* config.ignoredGatewayEvents
  lastOp,             \* the handler that ran last
  wrote,              \* what the last handler wrote to a transport
  closedWith,         \* code of the last terminal close, until a close, a READY or a
                      \* non-resumable invalid session follows
  hadSession,         \* a session id was held when that terminal close arrived
  terminal,           \* a terminal close happened and nobody called connect() since
  gap,                \* session held at the last resumable close, until the resume ends
  staleTimer,         \* the pending reconnect timeout was pending when destroy() ran
  everDestroyed,      \* destroy() has been called
  lastDelivered,      \* sequence number of the last event emitted in this session
  emitted,            \* what the last handler emitted: channel, event name, body
  waiters,            \* the waitFor calls: listener, timeout and promise of each
  rate,               \* the rate limiter: its buckets and the callers waiting for admission
  registry,           \* the bucket map of the RateLimitManager and the last getBucket calls
  backoff,            \* one computation of the reconnect delay: inputs and result
  observe             \* which of the history variables this behaviour records

vars == <<ws, conn, liveDiscarded, sequence, sessionId, heartbeatInterval,
          leakedIntervals, firstBeatTimers, heartbeatAcked, outstanding,
          reconnectAttempts, isConnecting, isReconnecting, destroyed,
          reconnectTimers, awaiting, abandoned, ignoredGatewayEvents,
          lastOp, wrote, closedWith, hadSession, terminal, gap, staleTimer,
          everDestroyed, lastDelivered, emitted, waiters, rate, registry, backoff,
          observe>>

\* The variables of the gateway session and its callers.
sessionVars ==
  <<ws, conn, liveDiscarded, sequence, sessionId, heartbeatInterval,
    leakedIntervals, firstBeatTimers, heartbeatAcked, outstanding,
    reconnectAttempts, isConnecting, isReconnecting, destroyed,
    reconnectTimers, awaiting, abandoned, ignoredGatewayEvents,
    lastOp, wrote, closedWith, hadSession, terminal, gap, staleTimer,
    everDestroyed, lastDelivered, emitted, waiters, observe>>

NoGap == [open |-> FALSE, sid |-> "", seq |-> 0]

\* The state as one record, so that a handler is a function from state to state.
\* abandoned and liveDiscarded are history variables of every behaviour; lastOp,
\* wrote, emitted, outstanding, closedWith, hadSession, terminal, gap, staleTimer,
\* everDestroyed and lastDelivered are recorded only
\* as far as the behaviour observes them (see Watched), so that the program's
\* own state is explored once and not once per combination of histories.
Cur ==
  [ws |-> ws, conn |-> conn, liveDiscarded |-> liveDiscarded, sequence |-> sequence,
   sessionId |-> sessionId, heartbeatInterval |-> heartbeatInterval,
   leakedIntervals |-> leakedIntervals, firstBeatTimers |-> firstBeatTimers,
   heartbeatAcked |-> heartbeatAcked, outstanding |-> outstanding,
   reconnectAttempts |-> reconnectAttempts, isConnecting |-> isConnecting,
   isReconnecting |-> isReconnecting, destroyed |-> destroyed,
   reconnectTimers |-> reconnectTimers, awaiting |-> awaiting,
   abandoned |-> abandoned, ignoredGatewayEvents |-> ignoredGatewayEvents,
   lastOp |-> lastOp, wrote |-> wrote, closedWith |-> closedWith,
   hadSession |-> hadSession,
   terminal |-> terminal, gap |-> gap, staleTimer |-> staleTimer,
   everDestroyed |-> everDestroyed, lastDelivered |-> lastDelivered,
   emitted |-> emitted, waiters |-> waiters]

\* The handlers whose name and output a behaviour records: all of them in the
\* behaviours that record no further history, the ones its properties speak
\* about in the others.
Watched ==
  CASE observe = "beats" -> {}
    [] observe = "close" -> {"Hello"}
    [] observe = "terminal" -> {"close"}
    [] observe = "resume" -> {"RESUMED"}
    [] observe = "destroy" -> {"timerConnect"}
    [] observe = "wait" -> EventNames \cup {"waitFor", "waitTimeout"}
    [] observe = "order" -> {"Hello"}
    [] observe = "surface" -> {"control", "error"}
    [] observe = "reconnect" -> {"connect", "connectSkipped", "timerConnect", "timerSkipped",
                                 "close", "InvalidSession", "Reconnect", "zombie", "Hello"}
    [] OTHER -> {"waitFor", "waitTimeout", "connect", "connectSkipped", "destroy", "open", "close",
                 "firstBeat", "tick", "zombie", "reconnectTimer", "timerConnect",
                 "timerSkipped", "timerDestroyed", "Dispatch"}
                \cup OpCodes \cup EventNames

\* The handler's result r becomes the next state.
Commit(r) ==
  /\ ws' = r.ws
  /\ conn' = r.conn
  /\ liveDiscarded' = r.liveDiscarded
  /\ sequence' = r.sequence
  /\ sessionId' = r.sessionId
  /\ heartbeatInterval' = r.heartbeatInterval
  /\ leakedIntervals' = r.leakedIntervals
  /\ firstBeatTimers' = r.firstBeatTimers
  /\ heartbeatAcked' = r.heartbeatAcked
  /\ outstanding' = (IF observe = "beats" THEN r.outstanding ELSE 0)
  /\ reconnectAttempts' = r.reconnectAttempts
  /\ isConnecting' = r.isConnecting
  /\ isReconnecting' = r.isReconnecting
  /\ destroyed' = r.destroyed
  /\ reconnectTimers' = r.reconnectTimers
  /\ awaiting' = r.awaiting
  /\ abandoned' = r.abandoned
  /\ ignoredGatewayEvents' = r.ignoredGatewayEvents
  /\ lastOp' = (IF r.lastOp \in Watched THEN r.lastOp ELSE "other")
  /\ wrote' = (IF r.lastOp \in Watched THEN r.wrote ELSE "none")
  /\ closedWith' = (IF observe = "close" THEN r.closedWith ELSE 0)
  /\ hadSession' = (IF observe = "close" THEN r.hadSession ELSE FALSE)
  /\ terminal' = (IF observe = "terminal" THEN r.terminal ELSE FALSE)
  /\ gap' = (IF observe = "resume" THEN r.gap ELSE NoGap)
  /\ staleTimer' = (IF observe = "destroy" THEN r.staleTimer ELSE FALSE)
  /\ everDestroyed' = (IF observe = "destroy" THEN r.everDestroyed ELSE FALSE)
  /\ lastDelivered' = (IF observe = "order" THEN r.lastDelivered ELSE 0)
  /\ emitted' = (IF r.lastOp \in Watched THEN r.emitted ELSE {})
  /\ waiters' = r.waiters
  /\ rate' = rate
  /\ registry' = registry
  /\ backoff' = backoff
  /\ observe' = observe

\* Every handler starts with nothing written and nothing emitted yet.
Begin(r, op) == [r EXCEPT !.lastOp = op, !.wrote = "none", !.emitted = {}]

\* A waitFor slot no call has used yet.
IdleWaiter ==
  [event |-> "", has |-> FALSE, accepts |-> {}, listening |-> FALSE,
   timer |-> FALSE, calls |-> 0, outcome |-> "idle", value |-> ""]

(***************************************************************************)
(* The rate limiter (RateLimitMappings, RateLimitManager, RateLimitBucket) *)
(* as its documentation and the specification describe it.  Time is kept   *)
(* relative: a bucket holds the ages of its timestamps, oldest first, and  *)
(* a tick of the clock ages them all.                                      *)
(***************************************************************************)
RateLimitMappings ==
  [route \in {"channels.messages.send", "auth.login"} |->
     IF route = "channels.messages.send"
     THEN [route |-> route, limit |-> SendLimit, window |-> WindowTicks,
           paramKeys |-> {"channelId"}]
     ELSE [route |-> route, limit |-> 1, window |-> WindowTicks, paramKeys |-> {}]]

NoKey == <<"", "">>

BucketKeys ==
  {<<"channels.messages.send", ch>> : ch \in ChannelIds} \cup {<<"auth.login", "">>}

\* A caller that is not waiting for admission.
IdleCaller == [key |-> NoKey, route |-> "", channelId |-> "", sleep |-> -1, ref |-> -1]

\* No HTTP request issued.
NoHttp == [c |-> "", route |-> "", channelId |-> ""]

InitRate(enabled) ==
  [enabled |-> enabled,
   stamps |-> [k \in BucketKeys |-> <<>>],
   queue |-> [k \in BucketKeys |-> <<>>],
   callers |-> [c \in Callers |-> IdleCaller],
   requests |-> 0,
   admittedRef |-> -1,
   http |-> NoHttp]

\* RateLimitConfig of a bucket: the configuration of the route in its key.
configOf(k) == RateLimitMappings[k[1]]

\* RateLimitBucket, step 1 with the window one tick short.
pruneEarly(stamps, cfg) ==
  LET fresh(a) == a < cfg.window - 1 IN SelectSeq(stamps, fresh)

\* RateLimitBucket, step 1: timestamps older than the window are removed.
prune(stamps, cfg) ==
  LET fresh(a) == a <= cfg.window IN SelectSeq(stamps, fresh)

\* RateLimitBucket, step 2 with the comparison off by one.
hasCapacityInclusive(stamps, cfg) == Len(stamps) <= cfg.limit

\* RateLimitBucket, step 2: fewer remaining timestamps than the limit.
hasCapacity(stamps, cfg) == Len(stamps) < cfg.limit

\* RateLimitBucket, step 3: the time until the oldest remaining timestamp expires.
waitTicks(stamps, cfg) == cfg.window - stamps[1]

\* The async queue of a bucket without its order: any queued caller proceeds.
isNextAnyQueued(q, c) == \E i \in 1..Len(q) : q[i] = c

\* The async queue of a bucket: the caller at its head proceeds.
isNext(q, c) == q # <<>> /\ Head(q) = c

\* RateLimitManager.getBucket with every parameter value in the key.
getBucketEveryParam(cfg, params) == <<cfg.route, params.channelId>>

\* RateLimitManager.getBucket with the parameter values left out of the key.
getBucketUnscoped(cfg, params) ==
  <<cfg.route, IF "channelId" \in cfg.paramKeys THEN "A" ELSE "">>

\* RateLimitManager.getBucket: the key is the route and the values of its paramKeys.
getBucket(cfg, params) ==
  <<cfg.route, IF "channelId" \in cfg.paramKeys THEN params.channelId ELSE "">>

\* The caller joins the queue of the bucket; ref is the age of the oldest
\* timestamp in the window when the caller arrives at a bucket at capacity,
\* and admittedRef is that age at the admission made in the current tick.
enqueue(s, c, k, route, channelId) ==
  LET kept == prune(s.stamps[k], configOf(k)) IN
  [s EXCEPT !.queue[k] = Append(@, c),
            !.callers[c] = [key |-> k, route |-> route, channelId |-> channelId,
                            sleep |-> -1,
                            ref |-> IF hasCapacity(kept, configOf(k)) THEN -1 ELSE kept[1]]]

\* The params objects of _rl calls: a parameter is "" when the call leaves it out.
BucketParams == [channelId : ChannelIds \cup {""}, messageId : {"", "m1"}]

NoCall ==
  [route |-> "", params |-> [channelId |-> "", messageId |-> ""], key |-> NoKey,
   created |-> FALSE]

\* The bucket map of a new RateLimitManager is empty.
InitRegistry == [buckets |-> {}, creations |-> 0, last |-> NoCall, prev |-> NoCall]

\* RateLimitManager.getBucket on its map: the bucket of the key is returned,
\* and created first when the map has none.
lookupBucket(reg, cfg, params) ==
  LET k == getBucket(cfg, params) IN
  [buckets |-> reg.buckets \cup {k},
   creations |-> IF k \in reg.buckets THEN reg.creations ELSE reg.creations + 1,
   prev |-> reg.last,
   last |-> [route |-> cfg.route, params |-> params, key |-> k,
             created |-> k \notin reg.buckets]]

\* ApiClient._rl up to the bucket it waits on.
rlBucket(reg, route, params) ==
  IF route \notin DOMAIN RateLimitMappings
  THEN reg
  ELSE lookupBucket(reg, RateLimitMappings[route], params)

\* RateLimitManager.waitForRateLimit that ignores the enabled flag.
waitForRateLimitAlways(s, c, k, route, channelId) == enqueue(s, c, k, route, channelId)

\* RateLimitManager.waitForRateLimit: nothing to wait for when rate limiting is disabled.
waitForRateLimit(s, c, k, route, channelId) ==
  IF ~s.enabled THEN s ELSE enqueue(s, c, k, route, channelId)

\* ApiClient._rl
rl(s, c, route, channelId) ==
  IF route \notin DOMAIN RateLimitMappings
  THEN s
  ELSE waitForRateLimit(s, c,
                        getBucket(RateLimitMappings[route],
                                  [channelId |-> channelId, messageId |-> ""]),
                        route, channelId)

\* RateLimitBucket.acquire, one pass of its loop by the caller whose turn it is.
acquire(s, c) ==
  LET k == s.callers[c].key
      cfg == configOf(k)
      kept == prune(s.stamps[k], cfg)
  IN  IF hasCapacity(kept, cfg)
      THEN [s EXCEPT !.stamps[k] = Append(kept, 0),
                     !.queue[k] = SelectSeq(@, LAMBDA x : x # c),
                     !.callers[c] = IdleCaller,
                     !.admittedRef = s.callers[c].ref]
      ELSE [s EXCEPT !.stamps[k] = kept,
                     !.callers[c].sleep = waitTicks(kept, cfg)]

\* _requestRS: fetch(url, ...) issues the HTTP request of the call.
fetch(s, c, route, channelId) ==
  [s EXCEPT !.http = [c |-> c, route |-> route, channelId |-> channelId]]

\* An API method that issues its request without awaiting _rl.
apiCallUnawaited(s, c, route, channelId) ==
  fetch(rl(s, c, route, channelId), c, route, channelId)

\* An API method such as sendMessage up to its first suspension: await _rl(...),
\* then _requestRS(...) once the promise of _rl is resolved.
apiCall(s, c, route, channelId) ==
  LET w == rl(s, c, route, channelId) IN
  IF w.callers[c].key = NoKey THEN fetch(w, c, route, channelId) ELSE w

\* The API method continues when RateLimitBucket.acquire lets its caller go on.
apiResume(s, c) ==
  LET a == acquire(s, c) IN
  IF a.callers[c].key = NoKey
  THEN fetch(a, c, s.callers[c].route, s.callers[c].channelId)
  ELSE a

\* A suspension that the clock does not shorten.
elapseStuck(sleep) == sleep

\* One tick of the clock on a suspension.
elapse(sleep) == IF sleep > 0 THEN sleep - 1 ELSE sleep

\* One tick of the clock on an age; ages beyond the window are not told apart.
older(a) == IF a >= 0 /\ a <= WindowTicks THEN a + 1 ELSE a

tick(s) ==
  [s EXCEPT !.stamps = [k \in BucketKeys |-> [i \in 1..Len(s.stamps[k]) |-> older(s.stamps[k][i])]],
            !.callers = [c \in Callers |->
                           [s.callers[c] EXCEPT !.sleep = elapse(@), !.ref = older(@)]],
            !.admittedRef = -1,
            !.http = NoHttp]

NoBackoff == [n |-> 0, baseMs |-> 0, rand |-> 0, delayMs |-> -1]

InitFields ==
  /\ ws = "none"
  /\ conn = 0
  /\ liveDiscarded = 0
  /\ sequence = 0
  /\ sessionId = ""
  /\ heartbeatInterval = FALSE
  /\ leakedIntervals = 0
  /\ firstBeatTimers = 0
  /\ heartbeatAcked = TRUE
  /\ outstanding = 0
  /\ reconnectAttempts = 0
  /\ isConnecting = FALSE
  /\ isReconnecting = FALSE
  /\ destroyed = FALSE
  /\ reconnectTimers = 0
  /\ awaiting = "none"
  /\ abandoned = 0
  /\ ignoredGatewayEvents \in IgnoreLists
  /\ lastOp = "new"
  /\ wrote = "none"
  /\ closedWith = 0
  /\ hadSession = FALSE
  /\ terminal = FALSE
  /\ gap = NoGap
  /\ staleTimer = FALSE
  /\ everDestroyed = FALSE
  /\ lastDelivered = 0
  /\ emitted = {}
  /\ waiters = [i \in WaiterIds |-> IdleWaiter]

Init0 ==
  /\ backoff = NoBackoff
  /\ registry = InitRegistry
  /\ rate = InitRate(TRUE)
  /\ InitFields


(***************************************************************************)
(* Inbound frames { op, d, s, t }.  d is the payload as far as the client  *)
(* reads it: the resumable flag of InvalidSession, the session_id of       *)
(* READY ("" when it is missing).                                          *)
(***************************************************************************)
SeqFields ==
  {[hasS |-> FALSE, s |-> 0]} \cup {[hasS |-> TRUE, s |-> n] : n \in 1..MaxSeq}

Payloads(o, t) ==
  IF o = "InvalidSession" THEN {"true", "false"}
  ELSE IF o = "Dispatch" /\ t = "READY" THEN SessionIds \cup {""}
  ELSE {""}

\* The server numbers its dispatches; the other frames carry s = null.
Packets ==
  {[op |-> o, d |-> d, hasS |-> FALSE, s |-> 0, t |-> ""] :
      <<o, d>> \in {x \in (OpCodes \ {"Dispatch"}) \X {"", "true", "false"} :
                      x[2] \in Payloads(x[1], "")}}
  \cup
  {[op |-> "Dispatch", d |-> d, hasS |-> q.hasS, s |-> q.s, t |-> t] :
      <<t, d, q>> \in {x \in (EventNames \cup {""}) \X (SessionIds \cup {""}) \X SeqFields :
                         x[2] \in Payloads("Dispatch", x[1])}}

(***************************************************************************)
(* closeCodes.ts: which close codes allow a reconnect.                     *)
(***************************************************************************)
shouldReconnect(code) == code \notin {4004, 4010, 4011, 4012, 4013, 4014}

Live(r) == r.ws \in {"connecting", "open"}

(***************************************************************************)
(* Helpers of GatewayClient, each a function from state to state.          *)
(***************************************************************************)

\* settle(resolve) of the pending connect(), followed by connect()'s finally block.
settle(r) ==
  IF r.awaiting = "pending"
  THEN [r EXCEPT !.awaiting = "settled", !.isConnecting = FALSE]
  ELSE r

\* A variant of send that writes whatever the readyState is.
sendUnchecked(r, frame) ==
  [r EXCEPT !.wrote = frame,
            !.outstanding = IF frame = "heartbeat" THEN @ + 1 ELSE @]

\* _send: written only when the transport is open, dropped otherwise.
send(r, frame) ==
  IF r.ws # "open" THEN r
  ELSE [r EXCEPT !.wrote = frame,
                 !.outstanding = IF frame = "heartbeat" THEN @ + 1 ELSE @]

stopHeartbeat(r) ==
  IF r.heartbeatInterval THEN [r EXCEPT !.heartbeatInterval = FALSE] ELSE r

sendHeartbeat(r) == send([r EXCEPT !.heartbeatAcked = FALSE], "heartbeat")

\* _startHeartbeat up to the setTimeout: the first beat is a pending timer.
startHeartbeat(r) ==
  [stopHeartbeat(r) EXCEPT !.heartbeatAcked = TRUE, !.firstBeatTimers = @ + 1]

\* A variant of closeTransport that never calls ws.close().
closeTransportSkipped(r) == r

\* _cleanup: ws.close(1000, "Client cleanup") when OPEN or CONNECTING; the
\* transport is CLOSING from then on.
closeTransport(r) ==
  IF Live(r) THEN [r EXCEPT !.ws = "closing", !.wrote = "close"] ELSE r

\* this._ws is overwritten (by null or by a new transport): the transport it
\* referred to stays behind in whatever readyState it has.
dropTransport(r) ==
  [r EXCEPT !.liveDiscarded = IF Live(r) THEN @ + 1 ELSE @,
            !.ws = "none",
            !.outstanding = 0]

\* _cleanup: the listeners go first, so the transport's close event is never
\* handled and a connect() still pending on it can no longer be settled.
cleanup(r) ==
  LET h == stopHeartbeat(r) IN
  IF h.ws = "none" THEN h
  ELSE dropTransport(
         [closeTransport(h) EXCEPT
            !.abandoned = IF h.awaiting = "pending" THEN @ + 1 ELSE @,
            !.awaiting = "none"])

\* A variant of handleCloseCode that keeps the session on 4004.
handleCloseCodeKeepsOnAuthFailure(r, code) ==
  IF code \in {4007, 4009}
  THEN [r EXCEPT !.sessionId = "", !.sequence = 0]
  ELSE r

\* A variant of handleCloseCode that clears the session on every close.
handleCloseCodeClearsAlways(r, code) ==
  [r EXCEPT !.sessionId = "", !.sequence = 0, !.lastDelivered = 0]

handleCloseCode(r, code) ==
  IF code \in {4004, 4007, 4009}
  THEN [r EXCEPT !.sessionId = "", !.sequence = 0, !.lastDelivered = 0]
  ELSE r

\* A variant of scheduleReconnect without the concurrency guard.
scheduleReconnectUnguarded(r) ==
  IF r.destroyed THEN r
  ELSE IF r.reconnectAttempts >= MaxReconnectAttempts THEN r
  ELSE [r EXCEPT !.isReconnecting = TRUE,
                 !.reconnectAttempts = @ + 1,
                 !.reconnectTimers = @ + 1]

\* A variant of scheduleReconnect that counts a trigger arriving while a
\* reconnect is pending as one more attempt.
scheduleReconnectCountsDuplicate(r) ==
  IF r.destroyed THEN r
  ELSE IF r.isReconnecting
       THEN [r EXCEPT !.reconnectAttempts =
                        IF @ < MaxReconnectAttempts THEN @ + 1 ELSE @]
  ELSE IF r.reconnectAttempts >= MaxReconnectAttempts THEN r
  ELSE [r EXCEPT !.isReconnecting = TRUE,
                 !.reconnectAttempts = @ + 1,
                 !.reconnectTimers = @ + 1]

\* A variant of scheduleReconnect that keeps the guard when it gives up.
scheduleReconnectHoldsGuard(r) ==
  IF r.destroyed THEN r
  ELSE IF r.isReconnecting THEN r
  ELSE IF r.reconnectAttempts >= MaxReconnectAttempts
       THEN [r EXCEPT !.isReconnecting = TRUE]
  ELSE [r EXCEPT !.isReconnecting = TRUE,
                 !.reconnectAttempts = @ + 1,
                 !.reconnectTimers = @ + 1]

scheduleReconnect(r) ==
  IF r.destroyed THEN r
  ELSE IF r.isReconnecting THEN r
  ELSE IF r.reconnectAttempts >= MaxReconnectAttempts THEN r
  ELSE [r EXCEPT !.isReconnecting = TRUE,
                 !.reconnectAttempts = @ + 1,
                 !.reconnectTimers = @ + 1]

\* this._ws = new WebSocket(url) inside the promise connect() awaits.
newTransport(r) ==
  [dropTransport(r) EXCEPT !.ws = "connecting", !.conn = @ + 1,
                           !.awaiting = "pending"]

\* A variant of connect without the in-progress guard.
connectUnguarded(r, opened, skipped) ==
  [newTransport(cleanup([r EXCEPT !.isConnecting = TRUE, !.destroyed = FALSE]))
     EXCEPT !.lastOp = opened]

\* connect(): lastOp tells whether the call opened a transport or was skipped.
connect(r, opened, skipped) ==
  IF r.isConnecting THEN [r EXCEPT !.lastOp = skipped]
  ELSE [newTransport(cleanup([r EXCEPT !.isConnecting = TRUE, !.destroyed = FALSE]))
          EXCEPT !.lastOp = opened]

(***************************************************************************)
(* waitFor: the promise's executor registers `handler` on the emitter and, *)
(* for a positive timeout, sets a timer.  calls counts the calls of        *)
(* resolve and reject; the promise keeps the outcome of the first.         *)
(* The filter is assumed not to throw.                                     *)
(***************************************************************************)
\* Once neither the emitter nor a timer refers to the handler, the event name
\* and the filter it closed over are unreachable.
release(w) ==
  IF w.listening \/ w.timer THEN w
  ELSE [w EXCEPT !.event = "", !.has = FALSE, !.accepts = {}]

\* resolve(d) or reject(error) of the promise.
settleWaiter(w, how, d) ==
  release([w EXCEPT !.calls = @ + 1,
                    !.outcome = IF @ = "pending" THEN how ELSE @,
                    !.value = IF w.outcome = "pending" THEN d ELSE @])

\* A variant of waitCleanup that leaves the listener on the emitter.
waitCleanupKeepsListener(w) == [w EXCEPT !.timer = FALSE]

\* cleanup of waitFor: emitter.off(event, handler); clearTimeout(timer).
waitCleanup(w) == [w EXCEPT !.listening = FALSE, !.timer = FALSE]

\* A variant of waitHandler that does not consult the filter.
waitHandlerUnfiltered(w, d) == settleWaiter(waitCleanup(w), "resolved", d)

\* handler of waitFor, called by the emitter with the event's body.
waitHandler(w, d) ==
  IF w.has /\ d \notin w.accepts THEN w
  ELSE settleWaiter(waitCleanup(w), "resolved", d)

\* The setTimeout callback of waitFor.
waitTimer(w) == settleWaiter(waitCleanup([w EXCEPT !.timer = FALSE]), "rejected", "")

waitFor(r, i, e, f, tmo) ==
  [r EXCEPT !.waiters[i] =
     [event |-> e, has |-> f.has, accepts |-> f.accepts, listening |-> TRUE,
      timer |-> (tmo # -1 /\ tmo > 0), calls |-> 0, outcome |-> "pending",
      value |-> ""]]

\* this._emitter.emit(ch, body): every listener registered on ch is called.
emit(r, ch, event, d) ==
  [r EXCEPT !.emitted = @ \cup {[ch |-> ch, event |-> event, d |-> d]},
            !.waiters = [i \in WaiterIds |->
                           IF @[i].listening /\ @[i].event = ch
                           THEN waitHandler(@[i], d) ELSE @[i]]]

\* A variant of emitError for an emitter without the constructor's listener.
emitErrorUnheard(r, listeners) ==
  [r EXCEPT !.emitted = @ \cup {[ch |-> "uncaughtException", event |-> "", d |-> ""]}]

\* this._emitter.emit("error", err): an EventEmitter without a listener for
\* "error" throws the error instead, out of the transport's event handler.
emitError(r, listeners) ==
  IF listeners > 0 THEN emit(r, "error", "", "")
  ELSE [r EXCEPT !.emitted = @ \cup {[ch |-> "uncaughtException", event |-> "", d |-> ""]}]

\* The "error" listener installed by connect(): log and emit, nothing else.
onError(r) == emitError(r, DefaultErrorListeners)

\* A variant of handleHello that always identifies.
handleHelloAlwaysIdentify(r) == send(startHeartbeat(r), "identify")

handleHello(r) ==
  LET h == startHeartbeat(r) IN
  IF h.sessionId # ""
  THEN send(h, "resume")
  ELSE send(h, "identify")

\* A variant of handleDispatch without the ignore list.
handleDispatchUnfiltered(r, p) ==
  IF p.t = "" THEN r
  ELSE LET e == emit(r, "raw", p.t, p.d) IN
       IF p.t = "READY"
       THEN settle(emit([e EXCEPT !.sessionId = p.d, !.reconnectAttempts = 0,
                                  !.isConnecting = FALSE,
                                  !.closedWith = 0, !.hadSession = FALSE,
                                  !.gap = NoGap],
                        "READY", "READY", p.d))
       ELSE IF p.t = "RESUMED"
       THEN settle(emit([e EXCEPT !.reconnectAttempts = 0, !.isConnecting = FALSE,
                                  !.gap = NoGap],
                        "RESUMED", "RESUMED", p.d))
       ELSE emit(e, p.t, p.t, p.d)

handleDispatch(r, p) ==
  IF p.t = "" THEN r
  ELSE IF p.t \in r.ignoredGatewayEvents THEN r
  ELSE LET e == emit(r, "raw", p.t, p.d) IN
       IF p.t = "READY"
       THEN settle(emit([e EXCEPT !.sessionId = p.d, !.reconnectAttempts = 0,
                                  !.isConnecting = FALSE,
                                  !.closedWith = 0, !.hadSession = FALSE,
                                  !.gap = NoGap],
                        "READY", "READY", p.d))
       ELSE IF p.t = "RESUMED"
       THEN settle(emit([e EXCEPT !.reconnectAttempts = 0, !.isConnecting = FALSE,
                                  !.gap = NoGap],
                        "RESUMED", "RESUMED", p.d))
       ELSE emit(e, p.t, p.t, p.d)

trackSequence(r, p) == IF p.hasS THEN [r EXCEPT !.sequence = p.s] ELSE r

\* A variant of invalidSession that keeps the session whatever the flag.
invalidSessionKeepsSession(q, d) == scheduleReconnect(cleanup(q))

\* The InvalidSession case of _handleMessage; d is the resumable flag.
invalidSession(q, d) ==
  scheduleReconnect(cleanup(
    IF d = "false"
    THEN [q EXCEPT !.sessionId = "", !.sequence = 0, !.gap = NoGap,
                   !.closedWith = 0, !.hadSession = FALSE,
                   !.lastDelivered = 0]
    ELSE q))

handleMessage(r, p) ==
  LET q == trackSequence(r, p) IN
  CASE p.op = "Hello" -> handleHello(q)
    [] p.op = "HeartbeatAck" ->
         emit([q EXCEPT !.heartbeatAcked = TRUE,
                        !.outstanding = IF @ > 0 THEN @ - 1 ELSE 0],
              "HEARTBEAT_ACK", "", "")
    [] p.op = "Heartbeat" -> sendHeartbeat(q)
    [] p.op = "InvalidSession" -> invalidSession(q, p.d)
    [] p.op = "Reconnect" -> scheduleReconnect(cleanup(q))
    [] p.op = "Dispatch" ->
         LET h == handleDispatch(q, p) IN
         IF p.hasS /\ h.emitted # {} THEN [h EXCEPT !.lastDelivered = p.s] ELSE h

\* The "close" listener installed by connect().
onClose(r, code) ==
  LET a == [stopHeartbeat(r) EXCEPT !.isConnecting = FALSE, !.ws = "closed",
                                    !.outstanding = 0,
                                    !.closedWith = IF shouldReconnect(code) THEN 0 ELSE code,
                                    !.hadSession = ~shouldReconnect(code) /\ r.sessionId # ""]
      b == settle(handleCloseCode(emit(a, "close", "", ""), code))
      c == IF ~b.destroyed /\ shouldReconnect(code) THEN scheduleReconnect(b) ELSE b
  IN [c EXCEPT
        !.terminal = IF shouldReconnect(code) THEN @ ELSE TRUE,
        !.gap = IF shouldReconnect(code) /\ code \notin {4004, 4007, 4009}
                   /\ c.sessionId # ""
                THEN [open |-> TRUE, sid |-> c.sessionId, seq |-> c.sequence]
                ELSE NoGap]

\* The setTimeout callback of _startHeartbeat.
firstBeat(r) ==
  LET b == sendHeartbeat([r EXCEPT !.firstBeatTimers = @ - 1]) IN
  [b EXCEPT !.leakedIntervals = IF b.heartbeatInterval THEN @ + 1 ELSE @,
            !.heartbeatInterval = TRUE]

\* The setInterval callback of _startHeartbeat.
heartbeatTick(r) ==
  IF ~r.heartbeatAcked THEN scheduleReconnect(cleanup(r)) ELSE sendHeartbeat(r)

\* The setTimeout callback of _scheduleReconnect.
reconnectTimer(r) ==
  LET t == [r EXCEPT !.reconnectTimers = @ - 1, !.isReconnecting = FALSE,
                     !.staleTimer = FALSE] IN
  IF t.destroyed THEN [t EXCEPT !.lastOp = "timerDestroyed"]
  ELSE connect(t, "timerConnect", "timerSkipped")

(***************************************************************************)
(* The delay of _scheduleReconnect for attempt n (the counter after its    *)
(* increment), in milliseconds as handed to setTimeout, which drops the    *)
(* fraction.  baseMs is config.reconnectDelay (seconds) in milliseconds,   *)
(* rand / RandomSteps the value of Math.random().  The session model lets  *)
(* a pending timeout fire at any time, so the delay is computed here and   *)
(* not stored with the timeout.                                            *)
(***************************************************************************)
Min(a, b) == IF a <= b THEN a ELSE b

\* A variant of reconnectDelayMs without the 60 s cap.
reconnectDelayMsUncapped(n, baseMs, rand) ==
  LET backoffMs == 2^(n - 1) * baseMs
      jitterMs == (rand * JitterPermille * backoffMs) \div (RandomSteps * 1000)
  IN backoffMs + jitterMs

reconnectDelayMs(n, baseMs, rand) ==
  LET backoffMs == Min(2^(n - 1) * baseMs, MaxBackoffSeconds * 1000)
      jitterMs == (rand * JitterPermille * backoffMs) \div (RandomSteps * 1000)
  IN backoffMs + jitterMs

(***************************************************************************)
(* Actions: one per handler.                                               *)
(***************************************************************************)

\* An external caller invokes connect().
Connect ==
  /\ isConnecting \/ conn < MaxConnects
  /\ Commit([connect(Begin(Cur, "connect"), "connect", "connectSkipped")
               EXCEPT !.terminal = FALSE])

\* An external caller invokes destroy().
Destroy ==
  Commit(cleanup([Begin(Cur, "destroy") EXCEPT
                    !.destroyed = TRUE,
                    !.everDestroyed = TRUE,
                    !.staleTimer = @ \/ reconnectTimers > 0]))

\* The transport's "open" event.
Open ==
  /\ ws = "connecting"
  /\ Commit([Begin(Cur, "open") EXCEPT !.ws = "open"])

\* The transport's "close" event: a close frame of the server, or 1006 when the
\* connection fails or is lost.
Close ==
  /\ Live(Cur)
  /\ \E code \in CloseCodes :
       /\ ws = "connecting" => code = 1006
       /\ Commit(onClose(Begin(Cur, "close"), code))

\* The transport's "message" event.
Message ==
  /\ ws = "open"
  /\ \E p \in Packets :
       /\ p.op = "Hello" => firstBeatTimers < MaxTimers
       /\ p.op = "Heartbeat" => outstanding < MaxOutstanding
       /\ Commit(handleMessage(
            Begin(Cur, IF p.op = "Dispatch" /\ p.t # "" THEN p.t ELSE p.op), p))

\* A first-heartbeat timeout fires.
FirstBeat ==
  /\ firstBeatTimers > 0
  /\ heartbeatInterval => leakedIntervals < MaxLeaked
  /\ ws = "open" => outstanding < MaxOutstanding
  /\ Commit(firstBeat(Begin(Cur, "firstBeat")))

\* A heartbeat interval ticks.
Tick ==
  /\ heartbeatInterval \/ leakedIntervals > 0
  /\ (heartbeatAcked /\ ws = "open") => outstanding < MaxOutstanding
  /\ Commit(heartbeatTick(
       Begin(Cur, IF heartbeatAcked THEN "tick" ELSE "zombie")))

\* The reconnect timeout fires.
ReconnectTimer ==
  /\ reconnectTimers > 0
  /\ destroyed \/ isConnecting \/ conn < MaxConnects
  /\ Commit(reconnectTimer(Begin(Cur, "reconnectTimer")))

Next ==
  \/ Connect
  \/ Destroy
  \/ Open
  \/ Close
  \/ Message
  \/ FirstBeat
  \/ Tick
  \/ ReconnectTimer

\* The session as its transport and its callers of connect() drive it, with no
\* timer firing: every session id, sequence and close code meet in it.
NextCloseCodes ==
  \/ Connect
  \/ Open
  \/ Message
  \/ Close

\* _scheduleReconnect computes the delay of the timeout it sets.
Backoff ==
  /\ backoff.delayMs < 0
  /\ backoff' = [backoff EXCEPT
                   !.delayMs = reconnectDelayMs(backoff.n, backoff.baseMs, backoff.rand)]
  /\ UNCHANGED <<sessionVars, rate, registry>>

NextBackoff == Backoff

\* A caller invokes waitFor(event, {filter, timeout}).
WaitFor ==
  \E i \in WaiterIds, e \in EventNames, f \in Filters, tmo \in Timeouts :
    /\ waiters[i].outcome # "pending"
    /\ ~waiters[i].listening
    /\ ~waiters[i].timer
    /\ Commit(waitFor(Begin(Cur, "waitFor"), i, e, f, tmo))

\* The timeout of a waitFor call elapses.
WaitTimeout ==
  \E i \in WaiterIds :
    /\ waiters[i].timer
    /\ Commit([Begin(Cur, "waitTimeout") EXCEPT !.waiters[i] = waitTimer(@)])

\* A caller invokes updatePresence, requestGuildMembers, updateVoiceState,
\* connectCall or subscribeGuild.
Control ==
  \E op \in ControlOps :
    Commit(send(Begin(Cur, "control"), op))

\* The transport's "error" event.
TransportError ==
  /\ Live(Cur)
  /\ Commit(onError(Begin(Cur, "error")))

\* The session with callers that use the control operations and a transport that
\* reports errors.
NextSurface ==
  \/ Next
  \/ Control
  \/ TransportError

\* The transport's "message" event with a dispatch frame.
Dispatched ==
  /\ ws = "open"
  /\ \E p \in Packets :
       /\ p.op = "Dispatch"
       /\ Commit(handleMessage(Begin(Cur, IF p.t # "" THEN p.t ELSE p.op), p))

(***************************************************************************)
(* The API client's callers and the rate limiter.                          *)
(***************************************************************************)
RequestKinds ==
  {<<"channels.messages.send", ch>> : ch \in ChannelIds}
    \cup {<<"auth.login", "">>, <<"unmapped", "">>}

\* A caller that is not waiting calls an API method, which awaits _rl.
RlRequest(c) ==
  /\ rate.callers[c] = IdleCaller
  /\ rate.requests < MaxRequests
  /\ \E kind \in RequestKinds :
       rate' = rl([rate EXCEPT !.requests = @ + 1], c, kind[1], kind[2])
  /\ UNCHANGED <<sessionVars, registry, backoff>>

\* The caller whose turn it is enters the bucket's critical section.
RlAcquire(c) ==
  /\ rate.callers[c].key # NoKey
  /\ isNext(rate.queue[rate.callers[c].key], c)
  /\ rate.callers[c].sleep = -1
  /\ rate' = acquire(rate, c)
  /\ UNCHANGED <<sessionVars, registry, backoff>>

\* The suspension of a caller ends and it retries from step 1.
RlRetry(c) ==
  /\ rate.callers[c].key # NoKey
  /\ rate.callers[c].sleep = 0
  /\ rate' = acquire(rate, c)
  /\ UNCHANGED <<sessionVars, registry, backoff>>

\* Time passes.
RlTick ==
  /\ rate' = tick(rate)
  /\ UNCHANGED <<sessionVars, registry, backoff>>

\* A caller's _rl call looks its bucket up.
RlGetBucket ==
  /\ \E route \in Routes, params \in BucketParams :
       registry' = rlBucket(registry, route, params)
  /\ UNCHANGED <<sessionVars, rate, backoff>>

NextRegistry == RlGetBucket

\* A caller that is not waiting calls an API method.
RestCall(c) ==
  /\ rate.callers[c] = IdleCaller
  /\ rate.requests < MaxRequests
  /\ \E kind \in RequestKinds :
       rate' = apiCall([rate EXCEPT !.requests = @ + 1, !.http = NoHttp],
                       c, kind[1], kind[2])
  /\ UNCHANGED <<sessionVars, registry, backoff>>

\* The caller whose turn it is enters the critical section; its API method
\* goes on when it is admitted.
RestAcquire(c) ==
  /\ rate.callers[c].key # NoKey
  /\ isNext(rate.queue[rate.callers[c].key], c)
  /\ rate.callers[c].sleep = -1
  /\ rate' = apiResume([rate EXCEPT !.http = NoHttp], c)
  /\ UNCHANGED <<sessionVars, registry, backoff>>

\* The suspension of a caller ends; its API method goes on when it is admitted.
RestRetry(c) ==
  /\ rate.callers[c].key # NoKey
  /\ rate.callers[c].sleep = 0
  /\ rate' = apiResume([rate EXCEPT !.http = NoHttp], c)
  /\ UNCHANGED <<sessionVars, registry, backoff>>

\* The API client with callers of its methods.
NextRest ==
  \/ \E c \in Callers : RestCall(c)
  \/ \E c \in Callers : RestAcquire(c)
  \/ \E c \in Callers : RestRetry(c)
  \/ RlTick

NextRate ==
  \/ \E c \in Callers : RlRequest(c)
  \/ \E c \in Callers : RlAcquire(c)
  \/ \E c \in Callers : RlRetry(c)
  \/ RlTick

\* The emitter and the waitFor calls, with a session that connects and receives
\* dispatches.  waitFor touches nothing of the session and the session reaches
\* the waitFor calls only through the events it emits, so this environment,
\* which produces every sequence of events, stands for all of them.
NextWait ==
  \/ Connect
  \/ Open
  \/ Dispatched
  \/ WaitFor
  \/ WaitTimeout

Init == Init0 /\ observe = "core"
InitBeats == Init0 /\ observe = "beats"
\* The default configuration, in which no event is ignored.
InitClose == Init0 /\ observe = "close" /\ ignoredGatewayEvents = {}
InitTerminal == Init0 /\ observe = "terminal"
InitResume == Init0 /\ observe = "resume"
InitDestroy == Init0 /\ observe = "destroy"
InitWait == Init0 /\ observe = "wait"
InitOrder == Init0 /\ observe = "order"
\* The default configuration as well.
InitSurface == Init0 /\ observe = "surface" /\ ignoredGatewayEvents = {}
InitReconnect == Init0 /\ observe = "reconnect"
InitBuckets ==
  /\ Init0
  /\ observe = "registry"
  /\ ignoredGatewayEvents = {}
InitRateLimiter ==
  /\ InitFields
  /\ registry = InitRegistry
  /\ backoff = NoBackoff
  /\ observe = "rate"
  /\ ignoredGatewayEvents = {}
  /\ \E enabled \in BOOLEAN : rate = InitRate(enabled)
InitRest ==
  /\ InitFields
  /\ registry = InitRegistry
  /\ backoff = NoBackoff
  /\ observe = "rest"
  /\ ignoredGatewayEvents = {}
  /\ \E enabled \in BOOLEAN : rate = InitRate(enabled)
InitBackoff ==
  /\ InitFields
  /\ registry = InitRegistry
  /\ rate = InitRate(TRUE)
  /\ observe = "backoff"
  /\ backoff \in [n : 1..MaxAttempt, baseMs : ReconnectDelaysMs,
                   rand : 0..(RandomSteps - 1), delayMs : {-1}]

Spec == Init /\ [][Next]_vars
SpecBeats == InitBeats /\ [][Next]_vars
SpecClose == InitClose /\ [][Next]_vars
SpecCloseCodes == InitClose /\ [][NextCloseCodes]_vars
SpecTerminal == InitTerminal /\ [][Next]_vars
SpecResume == InitResume /\ [][Next]_vars
SpecDestroy == InitDestroy /\ [][Next]_vars
SpecWait == InitWait /\ [][NextWait]_vars
SpecOrder == InitOrder /\ [][Next]_vars
SpecSurface == InitSurface /\ [][NextSurface]_vars
\* Every handler runs; the calls of connect(), the reconnect triggers and the
\* hello are the ones recorded.
SpecReconnect == InitReconnect /\ [][Next]_vars
SpecRate == InitRateLimiter /\ [][NextRate]_vars
\* The clock advances, and a caller whose turn or whose timer has come runs.
SpecRateFair ==
  /\ SpecRate
  /\ WF_vars(RlTick)
  /\ \A c \in Callers : WF_vars(RlAcquire(c)) /\ WF_vars(RlRetry(c))
SpecRest == InitRest /\ [][NextRest]_vars
SpecRegistry == InitBuckets /\ [][NextRegistry]_vars
SpecBackoff == InitBackoff /\ [][NextBackoff]_vars


(***************************************************************************)
(* Notions used by the properties.                                         *)
(***************************************************************************)

\* The handler of the step just taken was a connect() call of an external caller.
ExternalConnectCall == lastOp \in {"connect", "connectSkipped"}

\* The handler of the step just taken was the reconnect timeout calling connect().
TimerConnectCall == lastOp \in {"timerConnect", "timerSkipped"}

\* A connection attempt is in progress: the transport is opening or open and the
\* connect() that opened it has neither seen READY/RESUMED nor a close.
InProgress == Live(Cur) /\ awaiting = "pending"

\* Transports that are opening or open, referenced by _ws or not.
LiveTransports == (IF Live(Cur) THEN 1 ELSE 0) + liveDiscarded

\* What a connect() call may not touch when it is skipped.
sessionState ==
  <<ws, conn, liveDiscarded, sequence, sessionId, heartbeatInterval,
    leakedIntervals, firstBeatTimers, heartbeatAcked, reconnectAttempts,
    isConnecting, destroyed, awaiting, abandoned>>

(***************************************************************************)
(* C1: every connect() that opens a transport returns an awaitable that    *)
(* eventually settles, whatever ends the connection.  An awaitable can     *)
(* only be settled by the listeners of the transport it opened, so the     *)
(* claim requires that no awaitable is still pending once those listeners  *)
(* are gone.                                                               *)
(***************************************************************************)
C1_ConnectAlwaysSettles == abandoned = 0

(***************************************************************************)
(* C2: a recoverable disconnect is retried: when the backoff delay has     *)
(* elapsed and the session is not destroyed, a transport is opened (or one *)
(* is already opening because a connect() is in progress).                 *)
(***************************************************************************)
C2_ReconnectOpensTransport ==
  [][(lastOp' \in {"timerConnect", "timerSkipped"}) => Live(Cur)']_vars

(***************************************************************************)
(* C3: a connect() call made while a connection attempt is in progress is  *)
(* a no-op: no second transport, the existing one untouched, no session    *)
(* state changed.                                                          *)
(***************************************************************************)
C3_ConnectInProgressIsNoop ==
  [][/\ (InProgress /\ ExternalConnectCall')
          => /\ lastOp' = "connectSkipped"
             /\ UNCHANGED <<sessionState, isReconnecting, reconnectTimers>>
     /\ (InProgress /\ TimerConnectCall')
          => /\ lastOp' = "timerSkipped"
             /\ UNCHANGED sessionState]_vars

C3_Witness == lastOp = "connectSkipped" /\ InProgress /\ ws = "open"

(***************************************************************************)
(* C4: at most one transport is opening or open in every reachable state.  *)
(***************************************************************************)
C4_AtMostOneLiveTransport == LiveTransports <= 1

\* connect() has replaced a transport that was still opening or open.
C4_Witness ==
  /\ lastOp \in {"connect", "timerConnect"}
  /\ wrote = "close"
  /\ conn >= 2
  /\ ws = "connecting"

(***************************************************************************)
(* C5: the sequence watermark never decreases on receipt of a frame, until *)
(* it is cleared by a non-resumable invalid session or a session-clearing  *)
(* close code.                                                             *)
(***************************************************************************)
C5_SequenceNeverDecreases ==
  [][(lastOp' \notin {"InvalidSession", "close"}) => sequence' >= sequence]_vars

(***************************************************************************)
(* C6: after a resumable close followed by RESUMED on a later connection,  *)
(* the session id is the one held at the close and the sequence watermark  *)
(* is not lower than it was at the close.                                  *)
(***************************************************************************)
C6_ResumeKeepsSession ==
  [][(gap.open /\ lastOp' = "RESUMED" /\ "RESUMED" \notin ignoredGatewayEvents)
        => (sessionId' = gap.sid /\ sequence' >= gap.seq)]_vars

(***************************************************************************)
(* C7: a close with a terminal reason (4004, 4010..4014) schedules no      *)
(* reconnect and leaves the attempt counter alone, and the session then    *)
(* stays disconnected until an external caller invokes connect().          *)
(***************************************************************************)
C7_TerminalCloseStaysDisconnected ==
  [][/\ (lastOp' = "close" /\ terminal' /\ ~terminal)
          => (reconnectTimers' = reconnectTimers
              /\ reconnectAttempts' = reconnectAttempts)
     /\ terminal' => ~Live(Cur)']_vars

(***************************************************************************)
(* C8 as stated: after a close with any terminal reason, the next hello    *)
(* makes the client send identify, not resume.                             *)
(***************************************************************************)
C8_TerminalCloseThenIdentify ==
  [][(closedWith # 0 /\ lastOp' = "Hello") => wrote' = "identify"]_vars

(***************************************************************************)
(* C8 amended: after a close with 4004 the next hello makes the client     *)
(* send identify even if a session id was held before the close; a close   *)
(* with 4010..4014 keeps the session, so the next hello sends resume if a  *)
(* session id was held before the close and identify if none was.  (Next   *)
(* hello: no READY and no non-resumable invalid session in between.)       *)
(***************************************************************************)
C8_AuthFailureThenIdentify ==
  [][(closedWith # 0 /\ lastOp' = "Hello")
        => wrote' = (IF closedWith # 4004 /\ hadSession THEN "resume"
                     ELSE "identify")]_vars

C8_Witness ==
  lastOp = "Hello" /\ closedWith = 4004 /\ hadSession /\ wrote = "identify"

(***************************************************************************)
(* C9 as stated: a heartbeat tick that finds the previous heartbeat        *)
(* unacknowledged tears the connection down and exactly one reconnect is   *)
(* scheduled.                                                              *)
(***************************************************************************)
ZombieTeardown ==
  /\ ~heartbeatInterval'
  /\ ws' = "none"
  /\ (Live(Cur) <=> wrote' = "close")
  /\ liveDiscarded' = liveDiscarded

C9_ZombieSchedulesOneReconnect ==
  [][lastOp' = "zombie" => (ZombieTeardown /\ reconnectTimers' = 1)]_vars

(***************************************************************************)
(* C9 amended: such a tick sends no heartbeat, clears the heartbeat        *)
(* interval the session tracks, closes and discards the transport, and     *)
(* leaves at most one reconnect pending: exactly one if one was pending    *)
(* already or if the session is not destroyed and the attempt counter is   *)
(* below maxReconnectAttempts, none otherwise.                             *)
(***************************************************************************)
C9_ZombieSchedulesAtMostOneReconnect ==
  [][lastOp' = "zombie"
        => /\ ZombieTeardown
           /\ reconnectTimers' <= 1
           /\ reconnectTimers' = 1
                <=> \/ reconnectTimers = 1
                    \/ (~destroyed /\ reconnectAttempts < MaxReconnectAttempts)
           /\ reconnectAttempts' =
                IF reconnectTimers' > reconnectTimers
                THEN reconnectAttempts + 1 ELSE reconnectAttempts]_vars

C9_Witness ==
  lastOp = "zombie" /\ wrote = "close" /\ ws = "none" /\ reconnectTimers = 1

(***************************************************************************)
(* C10: at most one heartbeat is outstanding on the transport, whichever   *)
(* of the first beat, the periodic beats and the answers to a server       *)
(* heartbeat request sent it.                                              *)
(***************************************************************************)
C10_OneHeartbeatOutstanding == outstanding <= 1

(***************************************************************************)
(* C11: a reconnect timeout that was pending when destroy() was called     *)
(* never opens a transport, whatever is called afterwards.                 *)
(***************************************************************************)
C11_DestroyCancelsReconnect == [][staleTimer => lastOp' # "timerConnect"]_vars

(***************************************************************************)
(* C12: once destroy() has been called, no reconnect is scheduled any      *)
(* more, by no close, invalid session, reconnect request or heartbeat      *)
(* timeout.                                                                *)
(***************************************************************************)
C12_DestroyedIsTerminal ==
  [][everDestroyed => reconnectTimers' <= reconnectTimers]_vars

\* Heartbeat intervals running, tracked by _heartbeatInterval or not.
IntervalsRunning == (IF heartbeatInterval THEN 1 ELSE 0) + leakedIntervals

(***************************************************************************)
(* C13: after destroy() (and before any later connect()) no heartbeat      *)
(* timer of the session sends a heartbeat or starts a heartbeat interval.  *)
(***************************************************************************)
C13_DestroyCancelsHeartbeatTimers ==
  [][(destroyed /\ lastOp' \in {"firstBeat", "tick", "zombie"})
        => (wrote' # "heartbeat" /\ IntervalsRunning' <= IntervalsRunning)]_vars

\* The handlers that end in _scheduleReconnect: a close, an invalid session, a
\* reconnect request, a heartbeat timeout.
ReconnectTriggers == {"close", "InvalidSession", "Reconnect", "zombie"}

(***************************************************************************)
(* C14: at most one reconnect timeout is pending in every reachable state, *)
(* and a reconnect trigger that arrives while one is pending schedules     *)
(* nothing and leaves the attempt counter alone.                           *)
(***************************************************************************)
C14_OneReconnectInFlight ==
  [][/\ reconnectTimers' <= 1
     /\ (reconnectTimers = 1 /\ lastOp' \in ReconnectTriggers)
          => (reconnectTimers' = 1 /\ reconnectAttempts' = reconnectAttempts)]_vars

\* A heartbeat timeout while a reconnect is pending: the counter is still 0 from
\* the READY of a connection an external caller opened in the meantime.
C14_Witness ==
  lastOp = "zombie" /\ reconnectTimers = 1 /\ reconnectAttempts = 0

(***************************************************************************)
(* C15: the attempt counter never exceeds maxReconnectAttempts, and when   *)
(* it has reached it a reconnect trigger schedules nothing, leaves the     *)
(* counter unchanged and does not keep the pending-reconnect guard: the    *)
(* guard is held afterwards only if a reconnect timeout is still pending.  *)
(***************************************************************************)
C15_MaxAttemptsStopsReconnecting ==
  [][/\ reconnectAttempts' <= MaxReconnectAttempts
     /\ (reconnectAttempts = MaxReconnectAttempts /\ lastOp' \in ReconnectTriggers)
          => /\ reconnectTimers' = reconnectTimers
             /\ reconnectAttempts' = reconnectAttempts
             /\ isReconnecting' = (reconnectTimers' = 1)]_vars

\* A heartbeat timeout of a live session that scheduled nothing.
C15_Witness ==
  /\ lastOp = "zombie"
  /\ reconnectAttempts = MaxReconnectAttempts
  /\ reconnectTimers = 0
  /\ ~isReconnecting
  /\ ~destroyed

(***************************************************************************)
(* C16: the delay for attempt n with base delay b is min(2^(n-1) * b, 60)  *)
(* seconds plus a jitter of at most 30% of that: never below that value,   *)
(* never above 1.3 times it, at most 78 seconds.                           *)
(***************************************************************************)
C16_ReconnectDelayBounds ==
  backoff.delayMs >= 0 =>
    LET cappedMs == IF 2^(backoff.n - 1) * backoff.baseMs <= 60000
                    THEN 2^(backoff.n - 1) * backoff.baseMs ELSE 60000
    IN /\ backoff.delayMs >= cappedMs
       /\ 10 * backoff.delayMs <= 13 * cappedMs
       /\ backoff.delayMs <= 78000

\* A delay at the cap with jitter on top.
C16_Witness == backoff.n >= 2 /\ backoff.delayMs > 60000

(***************************************************************************)
(* C17: every dispatched event with a name is emitted on the `raw` channel *)
(* with its name, events on the ignore list included.                      *)
(***************************************************************************)
C17_EveryDispatchOnRaw ==
  [][lastOp' \in EventNames
        => \E m \in emitted' : m.ch = "raw" /\ m.event = lastOp']_vars

(***************************************************************************)
(* C18: an event whose name is on the ignore list is never emitted on its  *)
(* own channel, and no waitFor registered for that name is resolved.       *)
(***************************************************************************)
C18_IgnoredNeverOnNamedChannel ==
  [][\A e \in ignoredGatewayEvents :
       /\ \A m \in emitted' : m.ch # e
       /\ \A i \in WaiterIds :
            (waiters[i].listening /\ waiters[i].event = e)
              => waiters'[i].outcome # "resolved"]_vars

\* An ignored READY arrived while a waitFor without filter was listening for it.
C18_Witness ==
  /\ lastOp = "READY"
  /\ "READY" \in ignoredGatewayEvents
  /\ emitted = {}
  /\ \E i \in WaiterIds :
       /\ waiters[i].listening
       /\ waiters[i].event = "READY"
       /\ ~waiters[i].has
       /\ waiters[i].outcome = "pending"

(***************************************************************************)
(* C19: a waitFor call settles at most once; while it is pending, the      *)
(* first event of its name that its filter accepts resolves it with that   *)
(* event's body, its timeout rejects it, and nothing else touches it, in   *)
(* particular no event its filter rejects.                                 *)
(***************************************************************************)
C19_WaitForSettlesOnce ==
  [][\A i \in WaiterIds :
       LET w == waiters[i]
           v == waiters'[i]
           heard == {m \in emitted' : m.ch = w.event /\ (~w.has \/ m.d \in w.accepts)}
           timedOut == lastOp' = "waitTimeout" /\ w.timer /\ ~v.timer
       IN /\ v.calls <= 1
          /\ w.outcome = "pending" =>
               /\ heard # {} => (v.outcome = "resolved" /\ \E m \in heard : v.value = m.d)
               /\ timedOut => v.outcome = "rejected"
               /\ (heard = {} /\ ~timedOut) => v = w]_vars

\* A READY with session s2 resolved the call without filter and left the call
\* whose filter accepts only s1 pending.
C19_Witness ==
  /\ lastOp = "READY"
  /\ sessionId = "s2"
  /\ \E i, j \in WaiterIds :
       /\ waiters[i].outcome = "resolved"
       /\ waiters[i].value = "s2"
       /\ waiters[j].outcome = "pending"
       /\ waiters[j].event = "READY"
       /\ waiters[j].has
       /\ waiters[j].timer

\* Listeners registered on the emitter for event e.
ListenerCount(reg, e) ==
  Cardinality({i \in WaiterIds : reg[i].listening /\ reg[i].event = e})

(***************************************************************************)
(* C20: a waitFor call adds one listener for its event, and settling, by   *)
(* an event or by the timeout, removes that listener and the timer and     *)
(* no other listener: the count for the event is back at its value before  *)
(* the call, and every registered listener belongs to a pending call.      *)
(***************************************************************************)
C20_WaitForLeaksNoListener ==
  [][\A i \in WaiterIds :
       LET w == waiters[i]
           v == waiters'[i]
           settledNow(e) ==
             {j \in WaiterIds : /\ waiters[j].outcome = "pending"
                                /\ waiters[j].event = e
                                /\ waiters'[j].outcome \in {"resolved", "rejected"}}
       IN /\ (w.outcome # "pending" /\ v.outcome = "pending")
               => ListenerCount(waiters', v.event) = ListenerCount(waiters, v.event) + 1
          /\ (w.outcome = "pending" /\ v.outcome # "pending")
               => /\ ~v.listening
                  /\ ~v.timer
                  /\ ListenerCount(waiters', w.event)
                       = ListenerCount(waiters, w.event) - Cardinality(settledNow(w.event))
          /\ (v.listening \/ v.timer) => v.outcome = "pending"]_vars

\* A call was rejected by its timeout while the other call keeps listening.
C20_Witness ==
  /\ lastOp = "waitTimeout"
  /\ \E i, j \in WaiterIds :
       /\ waiters[i].outcome = "rejected"
       /\ ~waiters[i].listening
       /\ waiters[j].outcome = "pending"
       /\ waiters[j].listening

(***************************************************************************)
(* C21: every close of the transport, by the server or the network (the    *)
(* close event) or by the client's own teardown (ws.close()), stops the    *)
(* heartbeat timer and emits `close`.                                      *)
(***************************************************************************)
C21_EveryCloseStopsHeartbeatAndEmits ==
  [][(lastOp' = "close" \/ wrote' = "close")
        => (~heartbeatInterval' /\ \E m \in emitted' : m.ch = "close")]_vars

\* What a handler that only writes or emits leaves alone.
clientState ==
  <<ws, conn, liveDiscarded, sequence, sessionId, heartbeatInterval,
    leakedIntervals, firstBeatTimers, heartbeatAcked, reconnectAttempts,
    isConnecting, isReconnecting, destroyed, reconnectTimers, awaiting,
    abandoned, waiters>>

(***************************************************************************)
(* C22: a control operation invoked while the transport is not open writes *)
(* nothing, emits nothing and changes no state of the session.             *)
(***************************************************************************)
C22_ControlDroppedWhenNotOpen ==
  [][(lastOp' = "control" /\ ws # "open")
        => (wrote' = "none" /\ emitted' = {} /\ UNCHANGED clientState)]_vars

\* A control operation was invoked while the transport was still opening.
C22_Witness == lastOp = "control" /\ ws = "connecting" /\ wrote = "none"

C24_ResumeNeverUnderReports ==
  [][/\ lastDelivered' # lastDelivered => sequence' >= lastDelivered'
     /\ (lastOp' = "Hello" /\ wrote' = "resume") => sequence' >= lastDelivered']_vars

(***************************************************************************)
(* Claims about the rate limiter.                                          *)
(***************************************************************************)
\* The callers waiting for admission to bucket k.
waitingOn(k) == {c \in Callers : rate.callers[c].key = k}

\* The timestamps of bucket k that are younger than its window.
inWindow(k) == {i \in 1..Len(rate.stamps[k]) : rate.stamps[k][i] < configOf(k).window}

(***************************************************************************)
(* C25: in every reachable state every bucket holds at most `limit`        *)
(* timestamps, and so at most `limit` of them are younger than the window. *)
(***************************************************************************)
C25_WindowNeverExceedsLimit ==
  \A k \in BucketKeys :
    /\ Len(rate.stamps[k]) <= configOf(k).limit
    /\ Cardinality(inWindow(k)) <= configOf(k).limit

\* A bucket filled to its limit inside the window, with one caller suspended
\* on it and another queued behind.
C25_Witness ==
  \E k \in BucketKeys :
    /\ Cardinality(inWindow(k)) = configOf(k).limit
    /\ Len(rate.queue[k]) >= 2
    /\ rate.callers[Head(rate.queue[k])].sleep > 0

(***************************************************************************)
(* C26: admission to one bucket is serialized.  A caller that is queued    *)
(* behind another is neither admitted nor suspended in any step: it stays  *)
(* queued, untouched, until it is at the head; the queue only loses its    *)
(* head or gains a caller at its end; and only the caller at the head is   *)
(* ever inside the prune/check/record loop.                                *)
(***************************************************************************)
C26_AdmissionIsSerialized ==
  [][\A k \in BucketKeys :
       /\ \A c \in waitingOn(k) :
            c # Head(rate.queue[k])
               => /\ rate'.callers[c].key = k
                  /\ rate'.callers[c].sleep = -1
                  /\ rate.callers[c].sleep = -1
       /\ \/ rate'.queue[k] = rate.queue[k]
          \/ rate.queue[k] # <<>> /\ rate'.queue[k] = Tail(rate.queue[k])
          \/ \E c \in Callers : rate'.queue[k] = Append(rate.queue[k], c)]_vars

\* Two callers queued for the last free slot of a bucket, neither yet
\* inside the critical section.
C26_Witness ==
  \E k \in BucketKeys :
    /\ Len(rate.stamps[k]) = configOf(k).limit - 1
    /\ Cardinality(inWindow(k)) = configOf(k).limit - 1
    /\ Len(rate.queue[k]) >= 2
    /\ \A c \in waitingOn(k) : rate.callers[c].sleep = -1

(***************************************************************************)
(* C27: a caller that arrived at a bucket at capacity is admitted only     *)
(* when the timestamp that was the oldest in the window at its arrival is  *)
(* at least one window old.                                                *)
(***************************************************************************)
C27_AdmittedNoEarlierThanExpiry ==
  [][\A c \in Callers :
       (rate.callers[c].key # NoKey /\ rate.callers[c].ref >= 0
          /\ rate'.callers[c].key = NoKey)
         => /\ rate.callers[c].ref >= configOf(rate.callers[c].key).window
            /\ rate'.admittedRef = rate.callers[c].ref]_vars

\* A caller that arrived at a bucket at capacity has just been admitted.
C27_Witness == rate.admittedRef >= 0

(***************************************************************************)
(* C28: with the clock advancing and every caller run when its turn or its *)
(* timer comes, and with finitely many requests made, every caller waiting *)
(* for admission to a bucket is eventually admitted.                       *)
(***************************************************************************)
C28_EveryQueuedCallerIsAdmitted ==
  \A c \in Callers :
    (rate.callers[c].key # NoKey) ~> (rate.callers[c].key = NoKey)

\* No more requests will arrive, and a caller waits behind another that is
\* suspended on a bucket at capacity.
C28_Witness ==
  /\ rate.requests = MaxRequests
  /\ \E k \in BucketKeys :
       /\ Len(rate.queue[k]) >= 2
       /\ rate.callers[Head(rate.queue[k])].sleep > 0
       /\ Len(rate.stamps[k]) = configOf(k).limit

\* The (route, scope) pair of the request that caller c is waiting on.
pairOf(c) == <<rate.callers[c].route, rate.callers[c].channelId>>

\* A step taken by caller c.
stepOf(c) == RlRequest(c) \/ RlAcquire(c) \/ RlRetry(c)

(***************************************************************************)
(* C29: buckets are per (route, scope) pair.  A waiting caller is queued   *)
(* on the bucket of its own pair and on no other; a step of a caller       *)
(* changes neither the timestamps nor the queue of the bucket of any other *)
(* pair; and a caller whose turn it is on a bucket with spare capacity is  *)
(* admitted whatever the state of the other buckets.                       *)
(***************************************************************************)
C29_BucketsAreIndependent ==
  [][\A c \in Callers :
       /\ rate'.callers[c].key # NoKey
            => \A k \in BucketKeys :
                 (\E i \in 1..Len(rate'.queue[k]) : rate'.queue[k][i] = c)
                    <=> k = pairOf(c)'
       /\ stepOf(c)
            => \A k \in BucketKeys \ {pairOf(c), pairOf(c)'} :
                 /\ rate'.stamps[k] = rate.stamps[k]
                 /\ rate'.queue[k] = rate.queue[k]
       /\ ((RlAcquire(c) \/ RlRetry(c))
             /\ pairOf(c) \in BucketKeys
             /\ hasCapacity(prune(rate.stamps[pairOf(c)], configOf(pairOf(c))),
                            configOf(pairOf(c))))
            => rate'.callers[c].key = NoKey]_vars

\* One channel's bucket is at capacity with a caller suspended on it, and
\* a message to the other channel has been admitted in the same tick.
C29_Witness ==
  \E k1, k2 \in BucketKeys :
    /\ k1 # k2
    /\ k1[1] = k2[1]
    /\ Cardinality(inWindow(k1)) = configOf(k1).limit
    /\ \E c \in waitingOn(k1) : rate.callers[c].sleep = configOf(k1).window
    /\ rate.stamps[k2] # <<>>
    /\ rate.stamps[k2][Len(rate.stamps[k2])] = 0
    /\ \A i \in 1..Len(rate.stamps[k1]) : rate.stamps[k1][i] = 0

(***************************************************************************)
(* C30: with rate limiting disabled every _rl call returns in the step     *)
(* that makes it: no caller is ever queued or suspended, and no timestamp  *)
(* is ever recorded, however many requests came before.                    *)
(***************************************************************************)
C30_DisabledResolvesAtOnce ==
  [][~rate.enabled
       => /\ \A c \in Callers : rate'.callers[c] = IdleCaller
          /\ \A k \in BucketKeys : rate'.stamps[k] = <<>> /\ rate'.queue[k] = <<>>
          /\ rate'.requests >= rate.requests
          /\ ~rate'.enabled]_vars

\* Rate limiting is disabled and more requests than any bucket's limit
\* have been made.
C30_Witness ==
  /\ ~rate.enabled
  /\ rate.requests = MaxRequests
  /\ \A route \in DOMAIN RateLimitMappings : rate.requests > RateLimitMappings[route].limit

\* The values a call passes for the scope keys of a route's configuration.
scopedValues(cfg, params) == [name \in cfg.paramKeys |-> params[name]]

\* The buckets the map holds for a route.
bucketsOf(route) == {k \in registry.buckets : k[1] = route}

(***************************************************************************)
(* C31: the bucket getBucket returns is determined by the route and the    *)
(* values of the route's scope keys.  Of two consecutive calls with the    *)
(* same route and equal scoped values, whatever their other parameters,    *)
(* the second gets the bucket of the first and creates none; every bucket  *)
(* of the map was created once, by a call; and a route without scope keys  *)
(* never has more than one bucket.                                         *)
(***************************************************************************)
C31_GetBucketIsAFunctionOfScope ==
  /\ (/\ registry.prev.route # ""
      /\ registry.prev.route = registry.last.route
      /\ scopedValues(RateLimitMappings[registry.last.route], registry.prev.params)
           = scopedValues(RateLimitMappings[registry.last.route], registry.last.params))
       => /\ registry.last.key = registry.prev.key
          /\ ~registry.last.created
  /\ registry.creations = Cardinality(registry.buckets)
  /\ registry.last.route # "" => registry.last.key \in registry.buckets
  /\ \A route \in DOMAIN RateLimitMappings :
       RateLimitMappings[route].paramKeys = {} => Cardinality(bucketsOf(route)) <= 1

\* Two calls for the same channel that differ in a parameter that is not a
\* scope key: the first created the bucket and the second got it; and the
\* route without scope keys, called with parameters, has its one bucket.
C31_Witness ==
  /\ registry.prev.route = "channels.messages.send"
  /\ registry.last.route = "channels.messages.send"
  /\ registry.prev.params.channelId = "A"
  /\ registry.last.params.channelId = "A"
  /\ registry.prev.params.messageId # registry.last.params.messageId
  /\ registry.prev.created
  /\ ~registry.last.created
  /\ Cardinality(bucketsOf("auth.login")) = 1
  /\ Cardinality(bucketsOf("channels.messages.send")) = 2

\* The bucket of the call whose HTTP request the step issues.
issuedKey ==
  getBucket(RateLimitMappings[rate'.http.route],
            [channelId |-> rate'.http.channelId, messageId |-> ""])

(***************************************************************************)
(* C32: with rate limiting enabled, a step issues the HTTP request of a    *)
(* call on a mapped route only as the step in which the bucket of the      *)
(* call admits its caller, who was queued on it and is queued no longer;   *)
(* the request of a call on a route without mapping is issued in the step  *)
(* of the call itself, and that step touches no bucket and queues nobody;  *)
(* no request is ever issued for a caller that is still waiting.           *)
(***************************************************************************)
C32_AdmissionBeforeRequest ==
  [][/\ (rate'.http # NoHttp /\ rate.enabled
           /\ rate'.http.route \in DOMAIN RateLimitMappings)
        => /\ rate.callers[rate'.http.c].key = issuedKey
           /\ isNext(rate.queue[issuedKey], rate'.http.c)
           /\ rate'.callers[rate'.http.c].key = NoKey
           /\ rate'.stamps[issuedKey]
                = Append(prune(rate.stamps[issuedKey], configOf(issuedKey)), 0)
           /\ rate'.requests = rate.requests
     /\ (rate'.requests # rate.requests
           /\ \A c \in Callers : rate'.callers[c] = rate.callers[c])
        => /\ rate'.http # NoHttp
           /\ rate'.http.route \notin DOMAIN RateLimitMappings \/ ~rate.enabled
           /\ rate'.stamps = rate.stamps
           /\ rate'.queue = rate.queue
     /\ \A c \in Callers :
          rate'.callers[c].key # NoKey => rate'.http.c # c]_vars

\* The request of a message to a channel is issued as its caller, who
\* arrived when the channel's bucket was at capacity, is admitted.
C32_Witness ==
  /\ rate.http.route = "channels.messages.send"
  /\ rate.admittedRef >= 0
  /\ rate.callers[rate.http.c] = IdleCaller

(***************************************************************************)
(* C33: the handler of a hello frame restarts the heartbeat (interval      *)
(* handle cleared, ack flag set, one more first-beat timeout pending) and  *)
(* writes exactly one frame: resume when a session id is held, identify    *)
(* otherwise.  It changes neither the session id nor the sequence, so the  *)
(* resume carries the values held when the hello arrived.                  *)
(***************************************************************************)
C33_HelloStartsHeartbeatAndHandshake ==
  [][lastOp' = "Hello"
       => /\ wrote' = (IF sessionId # "" THEN "resume" ELSE "identify")
          /\ firstBeatTimers' = firstBeatTimers + 1
          /\ heartbeatAcked'
          /\ ~heartbeatInterval'
          /\ sessionId' = sessionId
          /\ sequence' = sequence
          /\ UNCHANGED <<ws, conn, reconnectAttempts, isConnecting, isReconnecting,
                         reconnectTimers, destroyed, awaiting>>]_vars

\* A hello on a later connection, answered with a resume of a session whose
\* watermark is not zero.
C33_Witness ==
  /\ lastOp = "Hello"
  /\ wrote = "resume"
  /\ sessionId # ""
  /\ sequence > 0
  /\ conn >= 2

(***************************************************************************)
(* C34: the handler of a READY or RESUMED dispatch resets the reconnect    *)
(* attempt counter to 0 and clears the in-progress flag; READY sets the    *)
(* session id (the step that handles READY ends with a session id from     *)
(* the server, or none when the event carries none), RESUMED leaves it     *)
(* unchanged; no other handler lowers the attempt counter.                 *)
(***************************************************************************)
C34_HandshakeCompletionResets ==
  [][/\ lastOp' \in {"READY", "RESUMED"}
          => reconnectAttempts' = 0 /\ ~isConnecting'
     /\ lastOp' = "RESUMED" => sessionId' = sessionId
     /\ lastOp' \notin {"READY", "RESUMED"}
          => reconnectAttempts' >= reconnectAttempts]_vars

\* The step is the close listener handling a close with the given code.
ClosedBy(code) ==
  /\ ws' = "closed"
  /\ ws \in {"connecting", "open"}
  /\ Commit(onClose(Begin(Cur, "close"), code))

(***************************************************************************)
(* C35: the close listener clears the session id and sets the sequence to  *)
(* 0 when the close code is 4004, 4007 or 4009, and leaves both as they    *)
(* were for every other code.                                              *)
(***************************************************************************)
C35_CloseCodeClearsSession ==
  [][ws' = "closed"
       => \A code \in CloseCodes :
            ClosedBy(code)
              => IF code \in {4004, 4007, 4009}
                 THEN sessionId' = "" /\ sequence' = 0
                 ELSE sessionId' = sessionId /\ sequence' = sequence]_vars

\* A close with 4004 has cleared a session that was held, watermark included.
C35_Witness ==
  /\ closedWith = 4004
  /\ hadSession
  /\ ws = "closed"
  /\ sessionId = ""
  /\ sequence = 0

\* The step is the message listener handling frame p.
Handled(p) ==
  /\ ws = "open"
  /\ Commit(handleMessage(
       Begin(Cur, IF p.op = "Dispatch" /\ p.t # "" THEN p.t ELSE p.op), p))

\* The teardown of an invalid-session frame: the heartbeat interval cleared,
\* the transport closed and no longer referenced.
InvalidSessionTeardown ==
  /\ ~heartbeatInterval'
  /\ ws' = "none"
  /\ wrote' = "close"
  /\ liveDiscarded' = liveDiscarded

C37_ConnectNeverDisabled == ~InProgress => ~isConnecting

(***************************************************************************)
(* C38: a first-heartbeat timeout belongs to the connection whose hello    *)
(* set it.  When it fires with that connection gone (no open transport is  *)
(* left) it touches neither the ack flag nor the heartbeat interval, and   *)
(* at most one heartbeat interval is running at any time.                  *)
(***************************************************************************)
C38_FirstBeatBoundToConnection ==
  [][/\ (lastOp' = "firstBeat" /\ ws # "open")
          => UNCHANGED <<heartbeatAcked, heartbeatInterval, leakedIntervals>>
     /\ IntervalsRunning' <= 1]_vars

\* The current transport is open and its connect() was settled by READY or
\* RESUMED.
Ready == ws = "open" /\ awaiting = "settled"

(***************************************************************************)
(* C39: a reconnect timeout that fires while the connection is Ready (it   *)
(* was set before that connection existed: whatever sets one leaves no     *)
(* open transport) neither closes the connection nor opens another.        *)
(***************************************************************************)
C39_StaleTimerSparesReadyConnection ==
  [][(Ready /\ lastOp' \in {"timerConnect", "timerSkipped", "timerDestroyed"})
        => /\ ws' = "open"
           /\ conn' = conn
           /\ wrote' = "none"
           /\ awaiting' = "settled"]_vars

(***************************************************************************)
(* C40: a READY or RESUMED that is on the ignore list still completes the  *)
(* handshake: the attempt counter is reset to 0, the in-progress flag is   *)
(* cleared, the pending connect() is settled, and READY records the        *)
(* session id it carries.                                                  *)
(***************************************************************************)
C40_IgnoredReadyCompletesHandshake ==
  [][(lastOp' \in {"READY", "RESUMED"} /\ lastOp' \in ignoredGatewayEvents)
       => \A p \in Packets :
            (p.op = "Dispatch" /\ p.t = lastOp' /\ Handled(p))
              => /\ reconnectAttempts' = 0
                 /\ ~isConnecting'
                 /\ awaiting' # "pending"
                 /\ p.t = "READY" => sessionId' = p.d]_vars

=============================================================================
